---- MODULE Spec2Model ----
(***************************************************************************)
(* Incremental play-history synchronisation of the Spotify ingestion       *)
(* pipeline: the history API, the two walkers of SpotifyClient, the S3     *)
(* checkpoint and batch stores of utils.py and the orchestrator            *)
(* lambda_handler (run_ingestion_s3.main has the same steps).              *)
(*                                                                         *)
(* A play is identified by its played_at instant.  Instants are counted in *)
(* microseconds (the resolution of Python's datetime); the API delivers    *)
(* instants with millisecond precision, so every instant of the history is *)
(* a multiple of 1000.                                                     *)
(***************************************************************************)
EXTENDS Integers, Sequences, FiniteSets, TLC

\* ------------------------------------------------------------------ bounds
\* Number of plays the listener can make (play k happens at millisecond k).
MaxPlays == 5
\* Page size of the history API: `limit: 50` / `len(tracks) < 50`, scaled down.
PAGE_SIZE == 2
\* `if page > 100` of get_all_recent_history, scaled down.
BackfillCeiling == 3
\* Number of plays made while the walkers are called directly: one more than
\* the Backfill Walker can fetch.
MaxWalkPlays == 7
\* Number of plays made half a millisecond apart.
MaxFinePlays == 4
\* Number of plays made while two runs overlap.
MaxOverlapPlays == 3
\* `if page > 10` of get_recent_plays_since, scaled down.
IncrementalCeiling == 2
\* Seconds of wall-clock time that pass while the model runs (batch keys).
MaxClock == 1

\* ------------------------------------------------------------- basic values
\* Python's None: no checkpoint loaded, no cursor set, no key returned.
None == -1

Runs == {1, 2}

Max(S) == CHOOSE m \in S : \A x \in S : x <= m
Min(S) == CHOOSE m \in S : \A x \in S : m <= x

\* Mutant: the instant is rounded to the nearest millisecond.
ParseTimestampRounded(iso_string) == (iso_string + 500) \div 1000

\* int(dt.timestamp() * 1000): the instant in whole milliseconds, truncated.
ParseTimestamp(iso_string) == iso_string \div 1000

\* The track_data dictionary built from one API item (the fields the
\* synchronisation reads; the descriptive fields are carried along unchanged).
TrackData(item) ==
    [played_at |-> item, played_at_timestamp |-> ParseTimestamp(item)]

\* The `for item in tracks_data` loop: one dictionary per item, same order.
Transform(tracks_data) == [k \in 1..Len(tracks_data) |-> TrackData(tracks_data[k])]

\* list.sort(key=played_at_timestamp): a stable ascending sort.
RECURSIVE InsertByTimestamp(_, _)
InsertByTimestamp(sorted, t) ==
    IF sorted = <<>> THEN <<t>>
    ELSE IF sorted[Len(sorted)].played_at_timestamp <= t.played_at_timestamp
         THEN Append(sorted, t)
         ELSE Append(InsertByTimestamp(SubSeq(sorted, 1, Len(sorted) - 1), t),
                     sorted[Len(sorted)])

RECURSIVE SortByTimestamp(_)
SortByTimestamp(tracks) ==
    IF tracks = <<>> THEN <<>>
    ELSE InsertByTimestamp(SortByTimestamp(SubSeq(tracks, 1, Len(tracks) - 1)),
                           tracks[Len(tracks)])

\* Mutant: the timestamp of the last track is taken for the newest one.
get_latest_timestamp_of_last(tracks) ==
    IF tracks = <<>> THEN None
    ELSE tracks[Len(tracks)].played_at_timestamp

\* max(track['played_at_timestamp'] for track in tracks), None if no tracks.
get_latest_timestamp(tracks) ==
    IF tracks = <<>> THEN None
    ELSE Max({tracks[k].played_at_timestamp : k \in 1..Len(tracks)})

PlayedAt(tracks) == {tracks[k].played_at : k \in 1..Len(tracks)}
Timestamps(tracks) == {tracks[k].played_at_timestamp : k \in 1..Len(tracks)}

\* ------------------------------------------------------------ the history API
\* The instants of a set, newest first.
RECURSIVE NewestFirst(_)
NewestFirst(S) ==
    IF S = {} THEN <<>>
    ELSE LET m == Max(S) IN <<m>> \o NewestFirst(S \ {m})

\* The n newest / the n oldest instants of a set.
RECURSIVE Newest(_, _)
Newest(S, n) ==
    IF S = {} \/ n = 0 THEN {}
    ELSE LET m == Max(S) IN {m} \cup Newest(S \ {m}, n - 1)

RECURSIVE Oldest(_, _)
Oldest(S, n) ==
    IF S = {} \/ n = 0 THEN {}
    ELSE LET m == Min(S) IN {m} \cup Oldest(S \ {m}, n - 1)

\* sp.current_user_recently_played(limit, before=..., after=...): one page of
\* at most `limit` items, newest first.  Without a cursor the newest plays;
\* with `before` the newest plays older than the cursor (backward paging; the
\* provider may hand back the item at the cursor again: boundary = TRUE);
\* with `after` the oldest plays newer than the cursor (forward paging).
current_user_recently_played(held, limit, before, after, boundary) ==
    IF before # None
    THEN NewestFirst(Newest({i \in held : \/ ParseTimestamp(i) < before
                                          \/ boundary /\ ParseTimestamp(i) = before},
                            limit))
    ELSE IF after # None
    THEN NewestFirst(Oldest({i \in held : ParseTimestamp(i) > after}, limit))
    ELSE NewestFirst(Newest(held, limit))

\* ------------------------------------------------------------------- state
VARIABLES
    history,    \* the instants of the plays the history API holds
    made,       \* number of plays made so far
    clock,      \* wall-clock time in seconds (datetime.now)
    state,      \* last_processed_timestamp of state/last_run_state.json, or None
    objects,    \* the batch store: key -> document
    run,        \* per run: the position and the local variables of the run
    clean,      \* no run has ended with a raised error so far
    previous,   \* what the last invocation that ended has left in the log
    enrichment  \* the position and the local variables of a get_artists call

vars == <<history, made, clock, state, objects, run, clean, previous, enrichment>>

\* A run that is not executing.
IdleRun ==
    [pc |-> "idle", call |-> "none", last_timestamp |-> None,
     all_tracks |-> <<>>, cursor |-> None, page |-> 1, tracks |-> <<>>,
     s3_key |-> None, latest_timestamp |-> None, body |-> "none",
     requests |-> <<>>, pages |-> <<>>, fetched |-> <<>>, page_error |-> FALSE,
     held |-> {}, response |-> "none", count |-> None,
     bad_item |-> None]

\* What the log of an invocation shows once it is over: how it ended, the
\* checkpoint it loaded, the method it fetched with, the tracks it fetched and
\* the key it saved them under (the print and logger lines of the handler).
Outcome(locals) ==
    [pc |-> locals.pc, call |-> locals.call,
     last_timestamp |-> locals.last_timestamp, tracks |-> locals.tracks,
     s3_key |-> locals.s3_key]

\* No call of get_artists is executing.
IdleEnrichment ==
    [pc |-> "idle", sp |-> FALSE, artist_ids |-> <<>>, catalogue |-> <<>>,
     i |-> 0, all_artists |-> <<>>, batches |-> <<>>]

Init ==
    /\ history = {}
    /\ made = 0
    /\ clock = 0
    /\ state = None
    /\ objects = [k \in {} |-> <<>>]
    /\ run = [r \in Runs |-> IdleRun]
    /\ clean = TRUE
    /\ previous = Outcome(IdleRun)
    /\ enrichment = IdleEnrichment

\* ------------------------------------------------------------- environment
\* The user plays a track: a new play, newer than every play made before.
Listen ==
    /\ made < MaxPlays
    /\ made' = made + 1
    /\ history' = history \cup {(made + 1) * 1000}
    /\ UNCHANGED <<clock, state, objects, run, clean, previous, enrichment>>

\* The same for the walkers called directly, which are followed over a
\* history longer than their page ceiling covers.
ListenWalk ==
    /\ made < MaxWalkPlays
    /\ made' = made + 1
    /\ history' = history \cup {(made + 1) * 1000}
    /\ UNCHANGED <<clock, state, objects, run, clean, previous, enrichment>>

\* The retention window moves on: the API no longer holds its oldest play.
Expire ==
    /\ history # {}
    /\ history' = history \ {Min(history)}
    /\ UNCHANGED <<made, clock, state, objects, run, clean, previous, enrichment>>

\* A second of wall-clock time passes.
Tick ==
    /\ clock < MaxClock
    /\ clock' = clock + 1
    /\ UNCHANGED <<history, made, state, objects, run, clean, previous, enrichment>>

\* ------------------------------------------------------- SpotifyClient
\* One request as the API sees it.
Request(before, after) == [before |-> before, after |-> after]

\* The walker returns `result` to its caller.
Returned(r, result, request, tracks_data) ==
    [run[r] EXCEPT !.pc = "returned", !.tracks = result,
                   !.all_tracks = result,
                   !.requests = Append(@, request),
                   !.pages = Append(@, Len(tracks_data)),
                   !.fetched = @ \o tracks_data]

\* The walker (or the handler) raises.
Raised(r, request) ==
    [run[r] EXCEPT !.pc = "raised", !.requests = Append(@, request),
                   !.page_error = TRUE]

\* get_recently_played(limit=50): one request without a cursor, the items in
\* the order of the API.
RecentlyPlayed(r) ==
    /\ run[r].pc = "fetch"
    /\ run[r].call = "get_recently_played"
    /\ LET tracks_data ==
               current_user_recently_played(history, PAGE_SIZE, None, None, FALSE)
       IN run' = [run EXCEPT ![r] =
               Returned(r, Transform(tracks_data), Request(None, None),
                        tracks_data)]
    /\ UNCHANGED <<history, made, clock, state, objects, clean, previous, enrichment>>

\* get_recently_played: the request fails, the error is logged and re-raised.
RecentlyPlayedFails(r) ==
    /\ run[r].pc = "fetch"
    /\ run[r].call = "get_recently_played"
    /\ run' = [run EXCEPT ![r] = Raised(r, Request(None, None))]
    /\ clean' = FALSE
    /\ UNCHANGED <<history, made, clock, state, objects, previous, enrichment>>

\* Mutant: a full page ends the walk as well.
BackfillShortPageOrFull(tracks) == Len(tracks) <= PAGE_SIZE

\* get_all_recent_history: `if len(tracks) < 50: break`.
BackfillShortPage(tracks) == Len(tracks) < PAGE_SIZE

\* Mutant: the cursor is taken from the first (newest) item of the page.
BackfillNextBeforeFirst(tracks) == tracks[1].played_at_timestamp

\* get_all_recent_history: `before_timestamp = tracks[-1]['played_at_timestamp']`.
BackfillNextBefore(tracks) == tracks[Len(tracks)].played_at_timestamp

\* Mutant: the walk has no page ceiling.
BackfillCeilingNever(page) == FALSE

\* get_all_recent_history: `if page > 100: break`.
BackfillCeilingReached(page) == page > BackfillCeiling

\* Mutant: every failed page is re-raised, the fetched pages are dropped.
KeepOnErrorNever(all_tracks) == FALSE

\* Mutant: a failed page is never re-raised, not even the first one.
KeepOnErrorAlways(all_tracks) == TRUE

\* The except branch of both walkers: keep what was fetched, else re-raise.
KeepOnError(all_tracks) == all_tracks # <<>>

\* Mutant: the pages are returned in the order they were fetched.
WalkResultUnsorted(all_tracks) == all_tracks

\* The result of both walkers: all pages, sorted oldest first.
WalkResult(all_tracks) == SortByTimestamp(all_tracks)

\* get_all_recent_history: one iteration of the `while True` loop whose
\* request succeeds.
BackfillPage(r) ==
    /\ run[r].pc = "fetch"
    /\ run[r].call = "get_all_recent_history"
    /\ \E boundary \in BOOLEAN :
         LET before_timestamp == run[r].cursor
             request == Request(before_timestamp, None)
             tracks_data == current_user_recently_played(
                                history, PAGE_SIZE, before_timestamp, None, boundary)
             tracks == Transform(tracks_data)
             all_tracks == run[r].all_tracks \o tracks
         IN run' = [run EXCEPT ![r] =
              IF tracks_data = <<>>
              THEN Returned(r, WalkResult(run[r].all_tracks), request, <<>>)
              ELSE IF BackfillShortPage(tracks)
              THEN Returned(r, WalkResult(all_tracks), request, tracks_data)
              ELSE IF BackfillCeilingReached(run[r].page + 1)
              THEN [Returned(r, WalkResult(all_tracks), request, tracks_data)
                        EXCEPT !.cursor = BackfillNextBefore(tracks),
                               !.page = run[r].page + 1]
              ELSE [run[r] EXCEPT !.all_tracks = all_tracks,
                                  !.cursor = BackfillNextBefore(tracks),
                                  !.page = @ + 1,
                                  !.requests = Append(@, request),
                                  !.pages = Append(@, Len(tracks)),
                                  !.fetched = @ \o tracks_data]]
    /\ UNCHANGED <<history, made, clock, state, objects, clean, previous, enrichment>>

\* get_all_recent_history: the request (or the transformation of an item)
\* raises.
BackfillPageFails(r) ==
    /\ run[r].pc = "fetch"
    /\ run[r].call = "get_all_recent_history"
    /\ LET request == Request(run[r].cursor, None)
       IN IF KeepOnError(run[r].all_tracks)
          THEN /\ run' = [run EXCEPT ![r] =
                     [run[r] EXCEPT !.pc = "returned",
                                    !.tracks = WalkResult(run[r].all_tracks),
                                    !.all_tracks = WalkResult(run[r].all_tracks),
                                    !.requests = Append(@, request),
                                    !.page_error = TRUE]]
               /\ UNCHANGED clean
          ELSE /\ run' = [run EXCEPT ![r] = Raised(r, request)]
               /\ clean' = FALSE
    /\ UNCHANGED <<history, made, clock, state, objects, previous, enrichment>>

\* The except branch of a walker after the item `item` of the page just
\* delivered could not be normalized (a KeyError, TypeError or ValueError in
\* the `for item in tracks_data` loop): the page is not in all_tracks yet.
MalformedItem(r, request, item) ==
    IF KeepOnError(run[r].all_tracks)
    THEN /\ run' = [run EXCEPT ![r] =
               [run[r] EXCEPT !.pc = "returned",
                              !.tracks = WalkResult(run[r].all_tracks),
                              !.all_tracks = WalkResult(run[r].all_tracks),
                              !.requests = Append(@, request),
                              !.page_error = TRUE,
                              !.bad_item = item]]
         /\ UNCHANGED clean
    ELSE /\ run' = [run EXCEPT ![r] = [Raised(r, request) EXCEPT !.bad_item = item]]
         /\ clean' = FALSE

\* Mutant: the walk ends with an empty result when an item is malformed.
BackfillPageMalformedDropsAll(r) ==
    /\ run[r].pc = "fetch"
    /\ run[r].call = "get_all_recent_history"
    /\ \E item \in history :
         run' = [run EXCEPT ![r] =
             [run[r] EXCEPT !.pc = "returned", !.tracks = <<>>,
                            !.all_tracks = <<>>,
                            !.requests = Append(@, Request(run[r].cursor, None)),
                            !.page_error = TRUE, !.bad_item = item]]
    /\ UNCHANGED <<history, made, clock, state, objects, clean, previous, enrichment>>

\* get_all_recent_history: the request succeeds and an item of the page
\* cannot be normalized.
BackfillPageMalformed(r) ==
    /\ run[r].pc = "fetch"
    /\ run[r].call = "get_all_recent_history"
    /\ \E boundary \in BOOLEAN :
         LET tracks_data == current_user_recently_played(
                                history, PAGE_SIZE, run[r].cursor, None, boundary)
         IN \E j \in 1..Len(tracks_data) :
                MalformedItem(r, Request(run[r].cursor, None), tracks_data[j])
    /\ UNCHANGED <<history, made, clock, state, objects, previous, enrichment>>

\* Mutant: the walk starts one millisecond before the checkpoint.
SinceInitialAfterInclusive(after_timestamp) == after_timestamp - 1

\* Mutant: the walk ignores the checkpoint and starts at the epoch.
SinceInitialAfterFromStart(after_timestamp) == 0

\* get_recent_plays_since: `current_after = after_timestamp`.
SinceInitialAfter(after_timestamp) == after_timestamp

\* get_recent_plays_since: `if len(tracks) < 50: break`.
SinceShortPage(tracks) == Len(tracks) < PAGE_SIZE

\* Mutant: the cursor is taken from the last (oldest) item of the page.
SinceNextAfterOldest(tracks) == tracks[Len(tracks)].played_at_timestamp

\* Mutant: the cursor is advanced one millisecond past the newest item.
SinceNextAfterSkipping(tracks) == tracks[1].played_at_timestamp + 1

\* get_recent_plays_since: `current_after = tracks[0]['played_at_timestamp']`.
SinceNextAfter(tracks) == tracks[1].played_at_timestamp

\* get_recent_plays_since: `if page > 10: break`.
SinceCeilingReached(page) == page > IncrementalCeiling

\* get_recent_plays_since: one iteration of the `while True` loop whose
\* request succeeds.
SincePage(r) ==
    /\ run[r].pc = "fetch"
    /\ run[r].call = "get_recent_plays_since"
    /\ LET current_after == run[r].cursor
           request == Request(None, current_after)
           tracks_data == current_user_recently_played(
                              history, PAGE_SIZE, None, current_after, FALSE)
           tracks == Transform(tracks_data)
           all_new_tracks == run[r].all_tracks \o tracks
       IN run' = [run EXCEPT ![r] =
            IF tracks_data = <<>>
            THEN Returned(r, WalkResult(run[r].all_tracks), request, <<>>)
            ELSE IF SinceShortPage(tracks)
            THEN Returned(r, WalkResult(all_new_tracks), request, tracks_data)
            ELSE IF SinceCeilingReached(run[r].page + 1)
            THEN [Returned(r, WalkResult(all_new_tracks), request, tracks_data)
                      EXCEPT !.cursor = SinceNextAfter(tracks),
                             !.page = run[r].page + 1]
            ELSE [run[r] EXCEPT !.all_tracks = all_new_tracks,
                                !.cursor = SinceNextAfter(tracks),
                                !.page = @ + 1,
                                !.requests = Append(@, request),
                                !.pages = Append(@, Len(tracks)),
                                !.fetched = @ \o tracks_data]]
    /\ UNCHANGED <<history, made, clock, state, objects, clean, previous, enrichment>>

\* get_recent_plays_since: the request (or the transformation of an item)
\* raises.
SincePageFails(r) ==
    /\ run[r].pc = "fetch"
    /\ run[r].call = "get_recent_plays_since"
    /\ LET request == Request(None, run[r].cursor)
       IN IF KeepOnError(run[r].all_tracks)
          THEN /\ run' = [run EXCEPT ![r] =
                     [run[r] EXCEPT !.pc = "returned",
                                    !.tracks = WalkResult(run[r].all_tracks),
                                    !.all_tracks = WalkResult(run[r].all_tracks),
                                    !.requests = Append(@, request),
                                    !.page_error = TRUE]]
               /\ UNCHANGED clean
          ELSE /\ run' = [run EXCEPT ![r] = Raised(r, request)]
               /\ clean' = FALSE
    /\ UNCHANGED <<history, made, clock, state, objects, previous, enrichment>>

\* get_recent_plays_since: the request succeeds and an item of the page
\* cannot be normalized.
SincePageMalformed(r) ==
    /\ run[r].pc = "fetch"
    /\ run[r].call = "get_recent_plays_since"
    /\ LET tracks_data == current_user_recently_played(
                              history, PAGE_SIZE, None, run[r].cursor, FALSE)
       IN \E j \in 1..Len(tracks_data) :
              MalformedItem(r, Request(None, run[r].cursor), tracks_data[j])
    /\ UNCHANGED <<history, made, clock, state, objects, previous, enrichment>>

\* ------------------------------------------------------------ utils (S3)
\* The document save_tracks_to_s3 uploads.
BatchDocument(tracks, now) ==
    [fetched_at |-> now, track_count |-> Len(tracks), tracks |-> tracks]

\* The key of save_tracks_to_s3: the date partition and the timestamp of
\* `now`, which has a resolution of one second.
BatchKey(now) == now

\* s3.put_object: the object under `key` is created or replaced.
PutObject(store, key, document) ==
    [k \in DOMAIN store \cup {key} |-> IF k = key THEN document ELSE store[k]]

\* The plays of all batch objects.
StoredPlays == UNION {PlayedAt(objects[k].tracks) : k \in DOMAIN objects}

\* ------------------------------------------------------- lambda_handler
\* Mutant: the stored state is ignored, every run fetches the newest page.
SelectFetchIgnoringState(last_timestamp) == "get_recently_played"

\* Mutant: the first run pages backward through the whole history.
SelectFetchBackfill(last_timestamp) ==
    IF last_timestamp # None /\ last_timestamp # 0
    THEN "get_recent_plays_since"
    ELSE "get_all_recent_history"

\* `if last_timestamp:` selects the fetch of the run.
SelectFetch(last_timestamp) ==
    IF last_timestamp # None /\ last_timestamp # 0
    THEN "get_recent_plays_since"
    ELSE "get_recently_played"

\* The handler raises: `except Exception as e: ... raise`.
Fail(r) ==
    /\ run' = [run EXCEPT ![r].pc = "raised"]
    /\ clean' = FALSE

\* The handler is invoked.
Invoke(r) ==
    /\ run[r].pc = "idle"
    /\ run' = [run EXCEPT ![r].pc = "authenticate"]
    /\ UNCHANGED <<history, made, clock, state, objects, clean, previous, enrichment>>

\* The scheduler starts a run only when no other run is executing.
SerialInvoke(r) ==
    /\ \A q \in Runs : run[q].pc = "idle"
    /\ Invoke(r)

\* client = SpotifyClient(); client.authenticate()
Authenticate(r) ==
    /\ run[r].pc = "authenticate"
    /\ run' = [run EXCEPT ![r].pc = "load_state"]
    /\ UNCHANGED <<history, made, clock, state, objects, clean, previous, enrichment>>

\* Mutant: the handler reads the state before it authenticates, so that the
\* failure of the authentication comes after the load.
AuthenticateFailsAfterLoad(r) ==
    /\ run[r].pc = "authenticate"
    /\ run' = [run EXCEPT ![r] = [run[r] EXCEPT !.pc = "raised",
                                               !.response = "Body",
                                               !.last_timestamp = state]]
    /\ clean' = FALSE
    /\ UNCHANGED <<history, made, clock, state, objects, previous, enrichment>>

\* client.authenticate() (or SpotifyClient()) raises; the handler logs and
\* re-raises.
AuthenticateFails(r) ==
    /\ run[r].pc = "authenticate"
    /\ Fail(r)
    /\ UNCHANGED <<history, made, clock, state, objects, previous, enrichment>>

\* Mutant: every error of the read is swallowed and answered with None.
ReraiseLoadErrorNever(code) == FALSE

\* load_state_from_s3: `if e.response['Error']['Code'] == 'NoSuchKey': return
\* None`, any other ClientError is re-raised.
ReraiseLoadError(code) == code # "NoSuchKey"

\* The handler has its last_timestamp: the choice of the fetch and the first
\* lines of the chosen method.
Loaded(r, last_timestamp, response) ==
    [run[r] EXCEPT !.pc = "fetch",
                   !.response = response,
                   !.last_timestamp = last_timestamp,
                   !.call = SelectFetch(last_timestamp),
                   !.cursor = IF SelectFetch(last_timestamp) = "get_recent_plays_since"
                              THEN SinceInitialAfter(last_timestamp)
                              ELSE None]

\* last_timestamp = load_state_from_s3(BUCKET_NAME): the state object exists
\* and is read.
LoadState(r) ==
    /\ run[r].pc = "load_state"
    /\ state # None
    /\ run' = [run EXCEPT ![r] = Loaded(r, state, "Body")]
    /\ UNCHANGED <<history, made, clock, state, objects, clean, previous, enrichment>>

\* load_state_from_s3: get_object raises a ClientError with the given code.
LoadStateClientError(r, code) ==
    /\ run[r].pc = "load_state"
    /\ IF ReraiseLoadError(code)
       THEN /\ run' = [run EXCEPT ![r] = [run[r] EXCEPT !.pc = "raised",
                                                        !.response = code]]
            /\ clean' = FALSE
       ELSE /\ run' = [run EXCEPT ![r] = Loaded(r, None, code)]
            /\ UNCHANGED clean
    /\ UNCHANGED <<history, made, clock, state, objects, previous, enrichment>>

\* load_state_from_s3: there is no state object.
LoadStateNotFound(r) ==
    /\ state = None
    /\ LoadStateClientError(r, "NoSuchKey")

\* load_state_from_s3: the read fails for another reason (whether or not the
\* object exists).
LoadStateFails(r) ==
    LoadStateClientError(r, "AccessDenied")

\* Mutant: without the check of the empty batch save_state_to_s3(None) raises.
NoNewTracksUnchecked(r) ==
    /\ run[r].pc = "returned"
    /\ run[r].tracks = <<>>
    /\ Fail(r)
    /\ UNCHANGED <<history, made, clock, state, objects, previous, enrichment>>

\* `if not tracks: return {"statusCode": 200, "body": "No new tracks"}`
NoNewTracks(r) ==
    /\ run[r].pc = "returned"
    /\ run[r].tracks = <<>>
    /\ run' = [run EXCEPT ![r] = [run[r] EXCEPT !.pc = "done",
                                               !.body = "No new tracks"]]
    /\ UNCHANGED <<history, made, clock, state, objects, clean, previous, enrichment>>

\* Mutant: the state is advanced before the batch is written.
SaveTracksAdvancingFirst(r) ==
    /\ run[r].pc = "returned"
    /\ run[r].tracks # <<>>
    /\ state' = get_latest_timestamp(run[r].tracks)
    /\ run' = [run EXCEPT ![r].pc = "save_state"]
    /\ UNCHANGED <<history, made, clock, objects, clean, previous, enrichment>>

\* s3_key = save_tracks_to_s3(tracks, BUCKET_NAME)
SaveTracks(r) ==
    /\ run[r].pc = "returned"
    /\ run[r].tracks # <<>>
    /\ objects' = PutObject(objects, BatchKey(clock),
                            BatchDocument(run[r].tracks, clock))
    /\ run' = [run EXCEPT ![r] = [run[r] EXCEPT !.pc = "save_state",
                                               !.s3_key = BatchKey(clock)]]
    /\ UNCHANGED <<history, made, clock, state, clean, previous, enrichment>>

\* save_tracks_to_s3 raises: put_object failed, nothing was stored.
SaveTracksFails(r) ==
    /\ run[r].pc = "returned"
    /\ run[r].tracks # <<>>
    /\ Fail(r)
    /\ UNCHANGED <<history, made, clock, state, objects, previous, enrichment>>

\* Mutant: the state write compares with the stored value and keeps the
\* greater one.
SaveStateKeepingNewest(r) ==
    /\ run[r].pc = "save_state"
    /\ state' = IF state # None /\ state > get_latest_timestamp(run[r].tracks)
                THEN state
                ELSE get_latest_timestamp(run[r].tracks)
    /\ run' = [run EXCEPT ![r] =
           [run[r] EXCEPT !.pc = "done",
                          !.latest_timestamp = get_latest_timestamp(run[r].tracks),
                          !.body = "Processed",
                          !.count = Len(run[r].tracks)]]
    /\ UNCHANGED <<history, made, clock, objects, clean, previous, enrichment>>

\* latest_timestamp = get_latest_timestamp(tracks);
\* save_state_to_s3(latest_timestamp, BUCKET_NAME); return "Processed N tracks"
SaveState(r) ==
    /\ run[r].pc = "save_state"
    /\ state' = get_latest_timestamp(run[r].tracks)
    /\ run' = [run EXCEPT ![r] =
           [run[r] EXCEPT !.pc = "done",
                          !.latest_timestamp = get_latest_timestamp(run[r].tracks),
                          !.body = "Processed",
                          !.count = Len(run[r].tracks)]]
    /\ UNCHANGED <<history, made, clock, objects, clean, previous, enrichment>>

\* Mutant: the failure of the state write is swallowed and the run reports
\* its success.
SaveStateFailsSilently(r) ==
    /\ run[r].pc = "save_state"
    /\ run' = [run EXCEPT ![r] = [run[r] EXCEPT !.pc = "done",
                                               !.body = "Processed",
                                               !.count = Len(run[r].tracks)]]
    /\ UNCHANGED <<history, made, clock, state, objects, clean, previous, enrichment>>

\* Mutant: the failed put_object has replaced the state object all the same.
SaveStateFailsAfterWrite(r) ==
    /\ run[r].pc = "save_state"
    /\ Fail(r)
    /\ state' = get_latest_timestamp(run[r].tracks)
    /\ UNCHANGED <<history, made, clock, objects, previous, enrichment>>

\* save_state_to_s3 raises: put_object failed, the state object is unchanged.
SaveStateFails(r) ==
    /\ run[r].pc = "save_state"
    /\ Fail(r)
    /\ UNCHANGED <<history, made, clock, state, objects, previous, enrichment>>

\* The invocation is over; the locals of the run are gone.
Return(r) ==
    /\ run[r].pc \in {"done", "raised"}
    /\ run' = [run EXCEPT ![r] = IdleRun]
    /\ UNCHANGED <<history, made, clock, state, objects, clean, previous, enrichment>>

\* The same end of an invocation, with its log kept for the next one to be
\* compared with.
ReturnLogged(r) ==
    /\ run[r].pc \in {"done", "raised"}
    /\ run' = [run EXCEPT ![r] = IdleRun]
    /\ previous' = Outcome(run[r])
    /\ UNCHANGED <<history, made, clock, state, objects, clean, enrichment>>

\* ------------------------------------------------------------ specification
\* Serialized runs of the handler against the API and the two stores.
Next ==
    \/ Listen
    \/ Expire
    \/ Tick
    \/ \E r \in Runs :
         \/ SerialInvoke(r)
         \/ Authenticate(r)
         \/ AuthenticateFails(r)
         \/ LoadState(r)
         \/ LoadStateNotFound(r)
         \/ LoadStateFails(r)
         \/ RecentlyPlayed(r)
         \/ RecentlyPlayedFails(r)
         \/ SincePage(r)
         \/ SincePageFails(r)
         \/ NoNewTracks(r)
         \/ SaveTracks(r)
         \/ SaveTracksFails(r)
         \/ SaveState(r)
         \/ SaveStateFails(r)
         \/ Return(r)

Spec == Init /\ [][Next]_vars

\* The listener whose first play is made at the epoch itself
\* (played_at 1970-01-01T00:00:00Z, played_at_timestamp 0).
ListenEpoch ==
    /\ made < MaxPlays
    /\ made' = made + 1
    /\ history' = history \cup {made * 1000}
    /\ UNCHANGED <<clock, state, objects, run, clean, previous, enrichment>>

\* The serialized runs of the handler over that history.
NextEpoch ==
    \/ ListenEpoch
    \/ Expire
    \/ Tick
    \/ \E r \in Runs :
         \/ SerialInvoke(r)
         \/ Authenticate(r)
         \/ AuthenticateFails(r)
         \/ LoadState(r)
         \/ LoadStateNotFound(r)
         \/ LoadStateFails(r)
         \/ RecentlyPlayed(r)
         \/ RecentlyPlayedFails(r)
         \/ SincePage(r)
         \/ SincePageFails(r)
         \/ NoNewTracks(r)
         \/ SaveTracks(r)
         \/ SaveTracksFails(r)
         \/ SaveState(r)
         \/ SaveStateFails(r)
         \/ Return(r)

EpochSpec == Init /\ [][NextEpoch]_vars

\* The same serialized runs, each leaving its log behind when it ends.
NextLogged ==
    \/ Listen
    \/ Expire
    \/ Tick
    \/ \E r \in Runs :
         \/ SerialInvoke(r)
         \/ Authenticate(r)
         \/ AuthenticateFails(r)
         \/ LoadState(r)
         \/ LoadStateNotFound(r)
         \/ LoadStateFails(r)
         \/ RecentlyPlayed(r)
         \/ RecentlyPlayedFails(r)
         \/ SincePage(r)
         \/ SincePageFails(r)
         \/ NoNewTracks(r)
         \/ SaveTracks(r)
         \/ SaveTracksFails(r)
         \/ SaveState(r)
         \/ SaveStateFails(r)
         \/ ReturnLogged(r)

LoggedSpec == Init /\ [][NextLogged]_vars

\* The listener while runs overlap: a shorter history, two runs at once being
\* followed through all their interleavings.
ListenOverlap ==
    /\ made < MaxOverlapPlays
    /\ made' = made + 1
    /\ history' = history \cup {(made + 1) * 1000}
    /\ UNCHANGED <<clock, state, objects, run, clean, previous, enrichment>>

\* The handler invoked with no regard to a run that is executing: nothing in
\* lambda_handler takes a lock or looks for another run.
NextOverlap ==
    \/ ListenOverlap
    \/ Expire
    \/ Tick
    \/ \E r \in Runs :
         \/ Invoke(r)
         \/ Authenticate(r)
         \/ AuthenticateFails(r)
         \/ LoadState(r)
         \/ LoadStateNotFound(r)
         \/ LoadStateFails(r)
         \/ RecentlyPlayed(r)
         \/ RecentlyPlayedFails(r)
         \/ SincePage(r)
         \/ SincePageFails(r)
         \/ NoNewTracks(r)
         \/ SaveTracks(r)
         \/ SaveTracksFails(r)
         \/ SaveState(r)
         \/ SaveStateFails(r)
         \/ Return(r)

OverlapSpec == Init /\ [][NextOverlap]_vars

\* ------------------------------------------- the pipeline with local files
\* run_ingestion_local.main keeps the batches and the state in files of data/:
\* `objects` are the spotify_plays_*.json files, `state` is the content of
\* data/last_run_state.json.

\* The state file after open(state_file, 'w') and before the document is
\* written and the file closed: it exists and holds no complete JSON document.
Truncated == -2

\* A batch file in the same condition.
PartialDocument == [fetched_at |-> None, track_count |-> None, tracks |-> <<>>]

\* load_state as a function of the content of the state file: the kind of
\* answer (no file: `return None`; json.load raises; the value of the
\* document).
load_state(content) ==
    IF content = None THEN "NotExists"
    ELSE IF content = Truncated THEN "JSONDecodeError"
    ELSE "Body"

\* last_timestamp = load_state() in main.
LocalLoadState(r) ==
    /\ run[r].pc = "load_state"
    /\ IF load_state(state) = "JSONDecodeError"
       THEN /\ run' = [run EXCEPT ![r] = [run[r] EXCEPT !.pc = "raised",
                                                        !.response = load_state(state)]]
            /\ clean' = FALSE
       ELSE /\ run' = [run EXCEPT ![r] = Loaded(r, state, load_state(state))]
            /\ UNCHANGED clean
    /\ UNCHANGED <<history, made, clock, state, objects, previous, enrichment>>

\* load_state() called by another process (a second start of the script, or
\* anyone who reads the state) while a run may be executing.
CallLoadState(r) ==
    /\ run[r].pc = "idle"
    /\ \E q \in Runs : run[q].pc \notin {"idle", "loaded"}
    /\ run' = [run EXCEPT ![r] =
           [IdleRun EXCEPT !.pc = IF load_state(state) = "JSONDecodeError"
                                  THEN "raised" ELSE "loaded",
                           !.call = "load_state",
                           !.response = load_state(state),
                           !.last_timestamp = IF load_state(state) = "Body"
                                              THEN state ELSE None]]
    /\ UNCHANGED <<history, made, clock, state, objects, clean, previous, enrichment>>

\* The caller of load_state() is done with the value.
LoadStateReturn(r) ==
    /\ run[r].pc = "loaded"
    /\ run' = [run EXCEPT ![r] = IdleRun]
    /\ UNCHANGED <<history, made, clock, state, objects, clean, previous, enrichment>>

\* filepath = save_tracks_to_json(tracks): the file named after the second of
\* `now` is created or replaced.
SaveTracksToJson(r) ==
    /\ run[r].pc = "returned"
    /\ run[r].tracks # <<>>
    /\ objects' = PutObject(objects, BatchKey(clock),
                            BatchDocument(run[r].tracks, clock))
    /\ run' = [run EXCEPT ![r] = [run[r] EXCEPT !.pc = "save_state",
                                               !.s3_key = BatchKey(clock)]]
    /\ UNCHANGED <<history, made, clock, state, clean, previous, enrichment>>

\* save_tracks_to_json raises: before the file is opened (nothing changes) or
\* after (the file is left cut short).
SaveTracksToJsonFails(r) ==
    /\ run[r].pc = "returned"
    /\ run[r].tracks # <<>>
    /\ \/ UNCHANGED objects
       \/ objects' = PutObject(objects, BatchKey(clock), PartialDocument)
    /\ Fail(r)
    /\ UNCHANGED <<history, made, clock, state, previous, enrichment>>

\* save_state(latest_timestamp), first half: mkdir, the state dictionary, and
\* open(state_file, 'w'), which creates the file or cuts it to length zero.
SaveStateOpen(r) ==
    /\ run[r].pc = "save_state"
    /\ state' = Truncated
    /\ run' = [run EXCEPT ![r] =
           [run[r] EXCEPT !.pc = "save_state_write",
                          !.latest_timestamp = get_latest_timestamp(run[r].tracks)]]
    /\ UNCHANGED <<history, made, clock, objects, clean, previous, enrichment>>

\* save_state raises before the file is opened (mkdir or open fails).
SaveStateOpenFails(r) ==
    /\ run[r].pc = "save_state"
    /\ Fail(r)
    /\ UNCHANGED <<history, made, clock, state, objects, previous, enrichment>>

\* save_state, second half: json.dump(state, f, indent=2) and the close of
\* the file put the document in place; main prints its success.
SaveStateWrite(r) ==
    /\ run[r].pc = "save_state_write"
    /\ state' = run[r].latest_timestamp
    /\ run' = [run EXCEPT ![r] = [run[r] EXCEPT !.pc = "done",
                                               !.body = "Processed"]]
    /\ UNCHANGED <<history, made, clock, objects, clean, previous, enrichment>>

\* save_state raises after the file is opened (the write fails, or the
\* process is stopped): the file stays as open() left it.
SaveStateWriteFails(r) ==
    /\ run[r].pc = "save_state_write"
    /\ Fail(r)
    /\ UNCHANGED <<history, made, clock, state, objects, previous, enrichment>>

NextLocal ==
    \/ Listen
    \/ Expire
    \/ Tick
    \/ \E r \in Runs :
         \/ SerialInvoke(r)
         \/ Authenticate(r)
         \/ AuthenticateFails(r)
         \/ LocalLoadState(r)
         \/ CallLoadState(r)
         \/ LoadStateReturn(r)
         \/ RecentlyPlayed(r)
         \/ RecentlyPlayedFails(r)
         \/ SincePage(r)
         \/ SincePageFails(r)
         \/ NoNewTracks(r)
         \/ SaveTracksToJson(r)
         \/ SaveTracksToJsonFails(r)
         \/ SaveStateOpen(r)
         \/ SaveStateOpenFails(r)
         \/ SaveStateWrite(r)
         \/ SaveStateWriteFails(r)
         \/ Return(r)

LocalSpec == Init /\ [][NextLocal]_vars

\* ---------------------------------------------- the walkers called directly
\* client.get_all_recent_history() called on an authenticated client (the
\* `__main__` block of spotify_client.py).
CallBackfill(r) ==
    /\ \A q \in Runs : run[q].pc = "idle"
    /\ run' = [run EXCEPT ![r] =
           [IdleRun EXCEPT !.pc = "fetch", !.call = "get_all_recent_history",
                           !.held = history]]
    /\ UNCHANGED <<history, made, clock, state, objects, clean, previous, enrichment>>

\* client.get_recent_plays_since(after_timestamp) called on an authenticated
\* client with the timestamp of some play.
CallSince(r) ==
    /\ \A q \in Runs : run[q].pc = "idle"
    /\ \E after_timestamp \in 1..MaxPlays :
         run' = [run EXCEPT ![r] =
             [IdleRun EXCEPT !.pc = "fetch", !.call = "get_recent_plays_since",
                             !.last_timestamp = after_timestamp,
                             !.cursor = SinceInitialAfter(after_timestamp),
                             !.held = history]]
    /\ UNCHANGED <<history, made, clock, state, objects, clean, previous, enrichment>>

\* The caller is done with the result (or with the error) of the walker.
WalkerReturn(r) ==
    /\ run[r].pc \in {"returned", "raised"}
    /\ run' = [run EXCEPT ![r] = IdleRun]
    /\ UNCHANGED <<history, made, clock, state, objects, clean, previous, enrichment>>

NextWalker ==
    \/ ListenWalk
    \/ Expire
    \/ \E r \in Runs :
         \/ CallBackfill(r)
         \/ CallSince(r)
         \/ BackfillPage(r)
         \/ BackfillPageFails(r)
         \/ BackfillPageMalformed(r)
         \/ SincePage(r)
         \/ SincePageFails(r)
         \/ SincePageMalformed(r)
         \/ WalkerReturn(r)

WalkerSpec == Init /\ [][NextWalker]_vars

\* ------------------------------------ the walkers over sub-millisecond instants
\* datetime.fromisoformat keeps the microseconds of played_at: the listener
\* makes plays half a millisecond apart (1500, 2000, 2500, ... microseconds).
ListenFine ==
    /\ made < MaxFinePlays
    /\ made' = made + 1
    /\ history' = history \cup {1000 + (made + 1) * 500}
    /\ UNCHANGED <<clock, state, objects, run, clean, previous, enrichment>>

NextFine ==
    \/ ListenFine
    \/ Expire
    \/ \E r \in Runs :
         \/ CallBackfill(r)
         \/ CallSince(r)
         \/ BackfillPage(r)
         \/ BackfillPageFails(r)
         \/ BackfillPageMalformed(r)
         \/ SincePage(r)
         \/ SincePageFails(r)
         \/ SincePageMalformed(r)
         \/ WalkerReturn(r)

FineSpec == Init /\ [][NextFine]_vars

\* ------------------------------------ SpotifyArtistClient.get_artists
\* Number of artist ids a call of get_artists is given.
MaxArtistIds == 5
\* `batch_size = 50`, scaled down.
BATCH_SIZE == 2

ArtistIds == {1, 2, 3}

\* What the API answers for an id: an artist object, null (an invalid id), or
\* an object without one of the fields the client reads.
ArtistKinds == {"artist", "null", "malformed"}

\* The lists of ids get_artists can be called with.
ArtistIdLists == UNION {[1..n -> ArtistIds] : n \in 0..MaxArtistIds}

\* The entry of results['artists'] for one id (artist 1 has no images).
ApiArtist(catalogue, id) ==
    [id |-> id, kind |-> catalogue[id],
     images |-> IF id = 1 THEN <<>> ELSE <<id>>]

\* self.sp.artists(batch): one entry per requested id, in the order of the
\* request.
Artists(catalogue, batch) ==
    [k \in 1..Len(batch) |-> ApiArtist(catalogue, batch[k])]

\* The artist_data dictionary built from one artist object.
ArtistData(artist) ==
    [artist_id |-> artist.id,
     image_url |-> IF artist.images # <<>> THEN artist.images[1] ELSE None]

\* Building artist_data raises (KeyError) for an object that lacks a field.
ConversionRaises(results) ==
    \E k \in 1..Len(results) : results[k].kind = "malformed"

\* The entries the `for artist in results['artists']` loop has appended when
\* it ends or raises: one per artist that is not null (`if artist:`), up to
\* the first object whose conversion raises.
ConvertedArtists(results) ==
    LET bad == {k \in 1..Len(results) : results[k].kind = "malformed"}
        n == IF bad = {} THEN Len(results) ELSE Min(bad) - 1
        kept == SelectSeq(SubSeq(results, 1, n), LAMBDA a : a.kind # "null")
    IN [k \in 1..Len(kept) |-> ArtistData(kept[k])]

\* Mutant: consecutive batches share their boundary id.
ArtistBatchOverlapping(artist_ids, i) ==
    SubSeq(artist_ids, Max({i, 1}), Min({i + BATCH_SIZE, Len(artist_ids)}))

\* batch = artist_ids[i:i + batch_size] (i counts from 0).
ArtistBatch(artist_ids, i) ==
    SubSeq(artist_ids, i + 1, Min({i + BATCH_SIZE, Len(artist_ids)}))

\* One iteration of the `for i in range(0, len(artist_ids), batch_size)` loop
\* is over: what was requested and how it ended is kept, i moves on.
BatchDone(batch, results, outcome, appended) ==
    [enrichment EXCEPT !.i = @ + BATCH_SIZE,
                       !.all_artists = @ \o appended,
                       !.batches = Append(@, [ids |-> batch, results |-> results,
                                              outcome |-> outcome])]

\* get_artists(artist_ids) is called on an authenticated client.
CallGetArtists ==
    /\ enrichment.pc = "idle"
    /\ \E artist_ids \in ArtistIdLists, catalogue \in [ArtistIds -> ArtistKinds] :
           enrichment' = [IdleEnrichment EXCEPT !.pc = "loop", !.sp = TRUE,
                                                !.artist_ids = artist_ids,
                                                !.catalogue = catalogue]
    /\ UNCHANGED <<history, made, clock, state, objects, run, clean, previous>>

\* `if not self.sp: raise ValueError("Not authenticated")`
CallGetArtistsNotAuthenticated ==
    /\ enrichment.pc = "idle"
    /\ \E artist_ids \in ArtistIdLists :
           enrichment' = [IdleEnrichment EXCEPT !.pc = "raised",
                                                !.artist_ids = artist_ids]
    /\ UNCHANGED <<history, made, clock, state, objects, run, clean, previous>>

\* One batch: the request succeeds and every artist of the answer is
\* converted or skipped as null.
ArtistsBatch ==
    /\ enrichment.pc = "loop"
    /\ enrichment.i < Len(enrichment.artist_ids)
    /\ LET batch == ArtistBatch(enrichment.artist_ids, enrichment.i)
           results == Artists(enrichment.catalogue, batch)
       IN /\ ~ConversionRaises(results)
          /\ enrichment' = BatchDone(batch, results, "ok", ConvertedArtists(results))
    /\ UNCHANGED <<history, made, clock, state, objects, run, clean, previous>>

\* One batch: the request succeeds and the conversion of an artist raises
\* inside the `try`; the entries appended before it stay in all_artists and
\* `continue` goes to the next batch.
ArtistsBatchMalformed ==
    /\ enrichment.pc = "loop"
    /\ enrichment.i < Len(enrichment.artist_ids)
    /\ LET batch == ArtistBatch(enrichment.artist_ids, enrichment.i)
           results == Artists(enrichment.catalogue, batch)
       IN /\ ConversionRaises(results)
          /\ enrichment' = BatchDone(batch, results, "malformed",
                                     ConvertedArtists(results))
    /\ UNCHANGED <<history, made, clock, state, objects, run, clean, previous>>

\* Mutant: the failure of a request ends the loop (`break`).
ArtistsBatchFailsStops ==
    /\ enrichment.pc = "loop"
    /\ enrichment.i < Len(enrichment.artist_ids)
    /\ enrichment' =
           [BatchDone(ArtistBatch(enrichment.artist_ids, enrichment.i),
                      <<>>, "failed", <<>>)
               EXCEPT !.i = Len(enrichment.artist_ids)]
    /\ UNCHANGED <<history, made, clock, state, objects, run, clean, previous>>

\* One batch: self.sp.artists(batch) raises; the error is logged and
\* `continue` goes to the next batch.
ArtistsBatchFails ==
    /\ enrichment.pc = "loop"
    /\ enrichment.i < Len(enrichment.artist_ids)
    /\ enrichment' = BatchDone(ArtistBatch(enrichment.artist_ids, enrichment.i),
                               <<>>, "failed", <<>>)
    /\ UNCHANGED <<history, made, clock, state, objects, run, clean, previous>>

\* The range is exhausted: `return all_artists`.
GetArtistsReturn ==
    /\ enrichment.pc = "loop"
    /\ enrichment.i >= Len(enrichment.artist_ids)
    /\ enrichment' = [enrichment EXCEPT !.pc = "returned"]
    /\ UNCHANGED <<history, made, clock, state, objects, run, clean, previous>>

\* The caller has its list (or its error); the locals of the call are gone.
GetArtistsOver ==
    /\ enrichment.pc \in {"returned", "raised"}
    /\ enrichment' = IdleEnrichment
    /\ UNCHANGED <<history, made, clock, state, objects, run, clean, previous>>

\* Calls of get_artists, each batch of which can succeed or fail.
NextArtists ==
    \/ CallGetArtists
    \/ CallGetArtistsNotAuthenticated
    \/ ArtistsBatch
    \/ ArtistsBatchMalformed
    \/ ArtistsBatchFails
    \/ GetArtistsReturn
    \/ GetArtistsOver

ArtistsSpec == Init /\ [][NextArtists]_vars

\* ------------------------------------------------------------- properties
IsSortedAscending(tracks) ==
    \A j, k \in 1..Len(tracks) :
        j < k => tracks[j].played_at_timestamp <= tracks[k].played_at_timestamp

\* Number of occurrences of the instant i in a sequence of instants.
RECURSIVE Occurrences(_, _)
Occurrences(items, i) ==
    IF items = <<>> THEN 0
    ELSE (IF items[1] = i THEN 1 ELSE 0) + Occurrences(Tail(items), i)

Instants(tracks) == [k \in 1..Len(tracks) |-> tracks[k].played_at]

\* C1: write-then-advance.  Every step that changes the stored checkpoint is
\* taken by a run whose batch is already in the batch store under the key the
\* run was given, and the value written is the newest timestamp of that batch;
\* a run whose batch write failed never changes the checkpoint.
C1_WriteThenAdvance ==
    [][state' # state =>
          \E r \in Runs :
              /\ run[r].pc = "save_state"
              /\ run[r].s3_key \in DOMAIN objects
              /\ objects[run[r].s3_key].tracks = run[r].tracks
              /\ state' = get_latest_timestamp(objects[run[r].s3_key].tracks)
              /\ objects' = objects]_vars

\* C1 witness: a run has written its batch and then advanced the checkpoint.
C1_Witness ==
    \E r \in Runs :
        /\ run[r].pc = "done"
        /\ run[r].body = "Processed"
        /\ run[r].s3_key \in DOMAIN objects
        /\ state = run[r].latest_timestamp

C4_NoOverlap ==
    \A r \in Runs :
        run[r].call = "get_recent_plays_since"
        => \A t \in Timestamps(run[r].all_tracks) \cup Timestamps(run[r].tracks) :
               t > run[r].last_timestamp

\* C4 witness: an incremental walk has returned plays.
C4_Witness ==
    \E r \in Runs :
        /\ run[r].call = "get_recent_plays_since"
        /\ run[r].pc = "returned"
        /\ run[r].tracks # <<>>
        /\ state = run[r].last_timestamp

\* C5: checkpoint monotonicity.  A stored checkpoint is never replaced by a
\* smaller value and never removed.
C5_CheckpointMonotone ==
    [][state # None => state' >= state]_vars

\* C5 witness: an incremental run has advanced a stored checkpoint.
C5_Witness ==
    \E r \in Runs :
        /\ run[r].pc = "done"
        /\ run[r].last_timestamp # None
        /\ run[r].latest_timestamp # None
        /\ run[r].latest_timestamp > run[r].last_timestamp
        /\ state = run[r].latest_timestamp

\* C6: dedup property.  A batch returned by the Backfill Walker or by the
\* Incremental Walker holds no two plays with the same epoch-millisecond
\* timestamp.
C6_NoEqualTimestamps ==
    \A r \in Runs :
        (/\ run[r].pc = "returned"
         /\ run[r].call \in {"get_all_recent_history", "get_recent_plays_since"})
        => Cardinality(Timestamps(run[r].tracks)) = Len(run[r].tracks)

\* C7: sorted batch.  The batch a run hands to the orchestrator, and every
\* tracks sequence in the batch store, is sorted ascending by timestamp.
C7_SortedBatch ==
    /\ \A r \in Runs :
           run[r].pc \in {"returned", "save_state", "done"}
           => IsSortedAscending(run[r].tracks)
    /\ \A k \in DOMAIN objects : IsSortedAscending(objects[k].tracks)

KFullPagesThenShort(r) ==
    /\ run[r].pc = "returned"
    /\ run[r].call = "get_all_recent_history"
    /\ ~run[r].page_error
    /\ history = run[r].held
    /\ \A i \in run[r].held : Occurrences(run[r].fetched, i) <= 1
    /\ Cardinality(run[r].held) % PAGE_SIZE = PAGE_SIZE - 1

\* C9 as stated: for every k >= 0 the Backfill Walker returns
\* k*PAGE_SIZE + (PAGE_SIZE-1) plays with exactly k+1 requests.
C9_BackfillTerminationAnyK ==
    \A r \in Runs :
        KFullPagesThenShort(r)
        => /\ Len(run[r].tracks) = Cardinality(run[r].held)
           /\ Len(run[r].requests) = Cardinality(run[r].held) \div PAGE_SIZE + 1

\* C9 amended: the same for every k below the page ceiling of the walker.
C9_BackfillTermination ==
    \A r \in Runs :
        (/\ KFullPagesThenShort(r)
         /\ Cardinality(run[r].held) \div PAGE_SIZE < BackfillCeiling)
        => /\ Len(run[r].tracks) = Cardinality(run[r].held)
           /\ Len(run[r].requests) = Cardinality(run[r].held) \div PAGE_SIZE + 1

\* C9 witness: a walk over one full page and one short page has returned.
C9_Witness ==
    \E r \in Runs :
        /\ KFullPagesThenShort(r)
        /\ run[r].pages = <<PAGE_SIZE, PAGE_SIZE - 1>>

\* C10: retention boundary.  A backward walk whose last page is empty has
\* returned without error and without a further request; its result is the
\* plays of the preceding pages, sorted ascending (none after an empty first
\* page).
C10_RetentionBoundary ==
    \A r \in Runs :
        (/\ run[r].call = "get_all_recent_history"
         /\ run[r].pages # <<>>
         /\ run[r].pages[Len(run[r].pages)] = 0)
        => /\ run[r].pc = "returned"
           /\ ~run[r].page_error
           /\ Len(run[r].requests) = Len(run[r].pages)
           /\ IsSortedAscending(run[r].tracks)
           /\ Len(run[r].tracks) = Len(run[r].fetched)
           /\ \A i \in history \cup run[r].held :
                  Occurrences(Instants(run[r].tracks), i)
                      = Occurrences(run[r].fetched, i)

\* C10 witness: a full page followed by an empty page.
C10_Witness ==
    \E r \in Runs :
        /\ run[r].call = "get_all_recent_history"
        /\ run[r].pc = "returned"
        /\ run[r].pages = <<PAGE_SIZE, 0>>
        /\ Len(run[r].tracks) = PAGE_SIZE

\* A walker result is exactly the plays of the pages fetched so far, sorted
\* ascending.
IsSortedFetch(r) ==
    /\ IsSortedAscending(run[r].tracks)
    /\ Len(run[r].tracks) = Len(run[r].fetched)
    /\ \A k \in 1..Len(run[r].fetched) :
           Occurrences(Instants(run[r].tracks), run[r].fetched[k])
               = Occurrences(run[r].fetched, run[r].fetched[k])

\* C11: partial-failure preservation.  In either walker, when the request of
\* a page after the first fails, the walker has returned (not raised) a
\* non-empty result, which is exactly the plays of the pages before, sorted
\* ascending, and the failed request is its last one.
C11_PartialFailurePreserved ==
    \A r \in Runs :
        (/\ run[r].call \in {"get_all_recent_history", "get_recent_plays_since"}
         /\ run[r].page_error
         /\ run[r].pages # <<>>)
        => /\ run[r].pc = "returned"
           /\ run[r].tracks # <<>>
           /\ IsSortedFetch(r)
           /\ Len(run[r].requests) = Len(run[r].pages) + 1

\* C11 witness: the second page of a backward walk failed and the first page
\* was returned.
C11_Witness ==
    \E r \in Runs :
        /\ run[r].call = "get_all_recent_history"
        /\ run[r].page_error
        /\ run[r].pc = "returned"
        /\ Len(run[r].pages) = 1
        /\ Len(run[r].tracks) = PAGE_SIZE

\* C12: first-page failure.  When the first page request of a run fails the
\* run raises; a run that has not reached its batch write, or that has raised,
\* leaves the batch store and the checkpoint as they were.
C12_FirstPageFailure ==
    [][\A r \in Runs :
          /\ (/\ run[r].pc = "fetch"
              /\ run'[r].page_error
              /\ run'[r].pages = <<>>)
             => /\ run'[r].pc = "raised"
                /\ run'[r].s3_key = None
                /\ run'[r].latest_timestamp = None
          /\ run[r].pc \in {"authenticate", "load_state", "fetch", "raised"}
             => /\ state' = state
                /\ objects' = objects
          /\ run[r].pc = "raised" => run'[r].pc \in {"raised", "idle"}]_vars

\* C12 witness: the first page of an incremental run failed, the run raised
\* and the stored checkpoint is the one the run loaded.
C12_Witness ==
    \E r \in Runs :
        /\ run[r].pc = "raised"
        /\ run[r].call = "get_recent_plays_since"
        /\ run[r].page_error
        /\ run[r].pages = <<>>
        /\ state = run[r].last_timestamp
        /\ objects # <<>>

\* C14: an empty batch is a successful no-op.  A run whose fetch returned no
\* tracks ends with "No new tracks", and neither that step nor any later step
\* of the run changes the batch store or the checkpoint.
C14_EmptyBatchNoOp ==
    [][\A r \in Runs :
          /\ (/\ run[r].pc = "returned"
              /\ run[r].tracks = <<>>
              /\ run'[r] # run[r])
             => /\ run'[r].pc = "done"
                /\ run'[r].body = "No new tracks"
                /\ run'[r].s3_key = None
                /\ state' = state
                /\ objects' = objects
          /\ (run[r].pc = "done" /\ run[r].body = "No new tracks")
             => /\ state' = state
                /\ objects' = objects]_vars

\* C14 witness: an incremental run found nothing new and ended successfully.
C14_Witness ==
    \E r \in Runs :
        /\ run[r].pc = "done"
        /\ run[r].body = "No new tracks"
        /\ run[r].last_timestamp # None
        /\ run[r].s3_key = None

\* C15: new checkpoint value.  After a successful run with a non-empty batch
\* the stored checkpoint is a timestamp of the batch and no timestamp of the
\* batch is greater.
C15_CheckpointIsBatchMaximum ==
    \A r \in Runs :
        (run[r].pc = "done" /\ run[r].body = "Processed")
        => /\ state \in Timestamps(run[r].tracks)
           /\ \A t \in Timestamps(run[r].tracks) : t <= state

\* C15 witness: a first run has persisted a batch that is not in ascending
\* order and saved its checkpoint.
C15_Witness ==
    \E r \in Runs :
        /\ run[r].pc = "done"
        /\ run[r].body = "Processed"
        /\ Len(run[r].tracks) >= 2
        /\ run[r].tracks[1].played_at_timestamp
               > run[r].tracks[Len(run[r].tracks)].played_at_timestamp

\* C20: bounded work.  A backward walk issues at most BackfillCeiling requests
\* and a forward walk at most IncrementalCeiling; a walk that stopped at its
\* ceiling has returned all plays it collected.
C20_BoundedWork ==
    \A r \in Runs :
        /\ run[r].call = "get_all_recent_history"
           => /\ Len(run[r].requests) <= BackfillCeiling
              /\ (run[r].page > BackfillCeiling
                  => /\ run[r].pc = "returned"
                     /\ IsSortedFetch(r)
                     /\ Len(run[r].tracks) = BackfillCeiling * PAGE_SIZE)
        /\ run[r].call = "get_recent_plays_since"
           => /\ Len(run[r].requests) <= IncrementalCeiling
              /\ (run[r].page > IncrementalCeiling
                  => /\ run[r].pc = "returned"
                     /\ IsSortedFetch(r)
                     /\ Len(run[r].tracks) = IncrementalCeiling * PAGE_SIZE)

\* C20 witness: a backward walk over more plays than the ceiling allows has
\* stopped at the ceiling.
C20_Witness ==
    \E r \in Runs :
        /\ run[r].call = "get_all_recent_history"
        /\ run[r].pc = "returned"
        /\ run[r].page > BackfillCeiling
        /\ Len(run[r].requests) = BackfillCeiling
        /\ Cardinality(history) > Len(run[r].tracks)

\* C19: the load of the checkpoint.  A run whose read was answered "not
\* found" went on with no checkpoint (None) instead of raising; a run whose
\* read failed otherwise has raised at the load; and a run goes on with no
\* checkpoint only after a "not found".
C19_NotFoundIsAbsent ==
    \A r \in Runs :
        /\ run[r].response = "NoSuchKey"
           => run[r].last_timestamp = None /\ run[r].call = "get_recently_played"
        /\ run[r].response = "AccessDenied"
           => run[r].pc = "raised" /\ run[r].call = "none"
        /\ (run[r].call = "get_recently_played" /\ run[r].last_timestamp = None)
           => run[r].response = "NoSuchKey"
        /\ run[r].response = "Body"
           => run[r].last_timestamp # None

\* C19 witness: a run found no state object and went on to its first fetch.
C19_Witness ==
    \E r \in Runs :
        /\ run[r].response = "NoSuchKey"
        /\ run[r].pc = "fetch"
        /\ state = None

\* No play newer than the checkpoint has been made: the API has no new data
\* for a walk that starts at this checkpoint.
NoNewData(checkpoint) ==
    \A n \in 1..made : ParseTimestamp(n * 1000) <= checkpoint

\* The run ended without a write: it saved no batch and no checkpoint.
WroteNothing(locals) ==
    /\ locals.s3_key = None
    /\ locals.tracks = <<>>

\* C13: idempotence.  When two consecutive runs walk incrementally from the
\* same checkpoint and the API has no play newer than it, both batches are
\* empty, neither run writes, and the checkpoint is still the one both loaded;
\* and the stores only ever change in the two save steps of a run, so they
\* are after the second run what they were before the first.
C13_Idempotence ==
    /\ [](\A r \in Runs :
            ( /\ run[r].pc \in {"done", "raised"}
              /\ run[r].call = "get_recent_plays_since"
              /\ previous.pc \in {"done", "raised"}
              /\ previous.call = "get_recent_plays_since"
              /\ previous.last_timestamp = run[r].last_timestamp
              /\ NoNewData(run[r].last_timestamp) )
            => /\ WroteNothing(previous)
               /\ WroteNothing(run[r])
               /\ run[r].latest_timestamp = None
               /\ state = run[r].last_timestamp)
    /\ [][ /\ objects' # objects
              => \E r \in Runs : /\ run[r].pc = "returned"
                                 /\ run'[r].s3_key # None
                                 /\ run[r].tracks # <<>>
           /\ state' # state
              => \E r \in Runs : /\ run[r].pc = "save_state"
                                 /\ run'[r].latest_timestamp = state' ]_vars

\* C13 witness: the second of two incremental runs from the same checkpoint
\* has ended with "No new tracks", like the first, the API still holding the
\* play of the checkpoint.
C13_Witness ==
    \E r \in Runs :
        /\ run[r].pc = "done"
        /\ run[r].body = "No new tracks"
        /\ run[r].call = "get_recent_plays_since"
        /\ previous.pc = "done"
        /\ previous.call = "get_recent_plays_since"
        /\ previous.last_timestamp = run[r].last_timestamp
        /\ previous.tracks = <<>>
        /\ NoNewData(run[r].last_timestamp)
        /\ history # {}
        /\ objects # <<>>

\* The last run that ended had persisted its batch and then raised before
\* its checkpoint was saved.
FailedAfterBatch ==
    /\ previous.pc = "raised"
    /\ previous.s3_key # None

\* The batch of run r holds every play of the failed run's batch that the API
\* still holds.
RefetchedAll(r) ==
    PlayedAt(previous.tracks) \cap history \subseteq PlayedAt(run[r].tracks)

\* C16 as stated: after a run that failed between its batch write and its
\* checkpoint write, the next run loads the checkpoint the failed run had
\* loaded, and when it succeeds its batch holds every play of the failed
\* run's batch that the API still holds.
C16_ReprocessingNotLoss ==
    \A r \in Runs :
        FailedAfterBatch
        => /\ run[r].response \in {"Body", "NoSuchKey"}
              => run[r].last_timestamp = previous.last_timestamp
           /\ run[r].pc = "done" => RefetchedAll(r)

\* C16 amended: the checkpoint part holds as stated; the batch part holds when
\* the failed run had loaded a checkpoint (the next run then walks forward
\* from the same checkpoint) and the walk of the next run met no page error.
C16_ReprocessingOfIncrementalRun ==
    \A r \in Runs :
        FailedAfterBatch
        => /\ run[r].response \in {"Body", "NoSuchKey"}
              => run[r].last_timestamp = previous.last_timestamp
           /\ ( /\ run[r].pc = "done"
                /\ previous.last_timestamp # None
                /\ ~run[r].page_error )
              => RefetchedAll(r)

\* C16 witness: an incremental run failed after its batch write; the next run
\* loaded the same checkpoint, fetched the plays of that batch again together
\* with a newer one, and succeeded.
C16_Witness ==
    \E r \in Runs :
        /\ FailedAfterBatch
        /\ previous.last_timestamp # None
        /\ run[r].pc = "done"
        /\ run[r].body = "Processed"
        /\ ~run[r].page_error
        /\ run[r].last_timestamp = previous.last_timestamp
        /\ PlayedAt(previous.tracks) \subseteq history
        /\ PlayedAt(previous.tracks) \subseteq PlayedAt(run[r].tracks)
        /\ PlayedAt(run[r].tracks) # PlayedAt(previous.tracks)

\* C17: a failed persistence step leaves the committed checkpoint in place.
\* A run of the local pipeline that raised in its batch write or in its
\* checkpoint write has left in the state file exactly the value it had
\* loaded, which a later load returns.
C17_FailedSaveKeepsCheckpoint ==
    \A r \in Runs :
        ( /\ run[r].pc = "raised"
          /\ run[r].call \in {"get_recently_played", "get_recent_plays_since"}
          /\ run[r].tracks # <<>> )
        => /\ state = run[r].last_timestamp
           /\ load_state(state) # "JSONDecodeError"

\* C18: atomic checkpoint save.  A load_state() that has answered while a run
\* is inside save_state has returned the value the file had before the save
\* or the value being saved, and has not raised.
C18_LoadSeesOldOrNew ==
    \A r \in Runs : \A q \in Runs :
        ( /\ run[r].pc = "save_state_write"
          /\ run[q].call = "load_state"
          /\ run[q].pc \in {"loaded", "raised"} )
        => /\ run[q].pc = "loaded"
           /\ run[q].last_timestamp \in {run[r].last_timestamp,
                                         run[r].latest_timestamp}

\* C23: a failed authentication is fatal and has no effect on the sync
\* state.  The step in which the authentication of a run fails ends the run
\* raised, with no load of the checkpoint, no history request and no write
\* behind it, and changes neither store; a raised run takes no further step
\* but its return (no retry).
C23_AuthenticationFailureFatal ==
    [][\A r \in Runs :
          /\ (run[r].pc = "authenticate" /\ run'[r].pc # "load_state"
                                         /\ run'[r] # run[r])
             => /\ run'[r].pc = "raised"
                /\ run'[r].response = "none"
                /\ run'[r].call = "none"
                /\ run'[r].requests = <<>>
                /\ run'[r].s3_key = None
                /\ run'[r].latest_timestamp = None
                /\ state' = state
                /\ objects' = objects
          /\ (run[r].pc = "raised" /\ run'[r] # run[r])
             => /\ run'[r] = IdleRun
                /\ state' = state
                /\ objects' = objects]_vars

\* C23 witness: a run after the first has failed to authenticate; the
\* checkpoint and the batch of the earlier run are in place.
C23_Witness ==
    \E r \in Runs :
        /\ run[r].pc = "raised"
        /\ run[r].response = "none"
        /\ run[r].requests = <<>>
        /\ state # None
        /\ objects # <<>>

\* C24: the outcomes of a run.  A run that is over has either returned
\* "Processed N tracks", N >= 1 being the length of its batch, with the batch
\* in the batch store under its key and the checkpoint written; or returned
\* "No new tracks" with nothing written; or raised, with no report.
C24_RunOutcomes ==
    \A r \in Runs :
        /\ run[r].pc = "done"
           => \/ /\ run[r].body = "Processed"
                 /\ run[r].count = Len(run[r].tracks)
                 /\ run[r].count >= 1
                 /\ run[r].s3_key \in DOMAIN objects
                 /\ objects[run[r].s3_key].tracks = run[r].tracks
                 /\ objects[run[r].s3_key].track_count = run[r].count
                 /\ run[r].latest_timestamp # None
                 /\ state = run[r].latest_timestamp
              \/ /\ run[r].body = "No new tracks"
                 /\ run[r].count = None
                 /\ run[r].tracks = <<>>
                 /\ run[r].s3_key = None
                 /\ run[r].latest_timestamp = None
                 /\ state = run[r].last_timestamp
        /\ run[r].pc = "raised"
           => /\ run[r].body = "none"
              /\ run[r].count = None
        /\ run[r].body # "none" => run[r].pc = "done"

\* C24 witness: a run has reported two processed plays, which are the batch
\* object it wrote.
C24_Witness ==
    \E r \in Runs :
        /\ run[r].pc = "done"
        /\ run[r].body = "Processed"
        /\ run[r].count = 2
        /\ objects[run[r].s3_key].track_count = 2
        /\ state = run[r].latest_timestamp

\* The page that request k of run r was answered with, as the API delivered
\* it (request k is answered when pages has a k-th entry).
RECURSIVE SumTo(_, _)
SumTo(lengths, k) == IF k = 0 THEN 0 ELSE lengths[k] + SumTo(lengths, k - 1)

PageOf(r, k) ==
    SubSeq(run[r].fetched, SumTo(run[r].pages, k - 1) + 1, SumTo(run[r].pages, k))

NewestFetched(r, n) ==
    Max({ParseTimestamp(run[r].fetched[i]) : i \in 1..n})

C27_MalformedItemKeepsPages ==
    \A r \in Runs :
        run[r].bad_item # None
        => /\ run[r].pages # <<>>
              => /\ run[r].pc = "returned"
                 /\ run[r].tracks # <<>>
                 /\ IsSortedFetch(r)
                 /\ Len(run[r].tracks) = SumTo(run[r].pages, Len(run[r].pages))
           /\ run[r].pages = <<>>
              => /\ run[r].pc = "raised"
                 /\ run[r].tracks = <<>>
           /\ Len(run[r].requests) = Len(run[r].pages) + 1

\* C27 witness: an Incremental walk has met a malformed item on its second
\* page and returned the full first page.
C27_Witness ==
    \E r \in Runs :
        /\ run[r].call = "get_recent_plays_since"
        /\ run[r].bad_item # None
        /\ run[r].pc = "returned"
        /\ run[r].pages = <<PAGE_SIZE>>
        /\ Len(run[r].tracks) = PAGE_SIZE
        /\ run[r].bad_item \notin PlayedAt(run[r].tracks)

\* C29: one batch object per run.  Every object of the batch store is a
\* complete document whose track_count is the length of its tracks, and the
\* object of a run that has succeeded with a batch holds that batch in the
\* same order; no batch is visible cut short.
C29_OneCompleteBatchPerRun ==
    /\ \A k \in DOMAIN objects :
           objects[k].track_count = Len(objects[k].tracks)
    /\ \A r \in Runs :
           (run[r].pc = "done" /\ run[r].body = "Processed")
           => /\ run[r].s3_key \in DOMAIN objects
              /\ objects[run[r].s3_key].tracks = run[r].tracks

\* C30: an append-only batch store.  No step removes a batch object or
\* changes the document under a key that is already in use.
C30_AppendOnlyBatchStore ==
    [][\A k \in DOMAIN objects :
           /\ k \in DOMAIN objects'
           /\ objects'[k] = objects[k]]_vars

\* Runs r and q have both succeeded with a batch after loading the same
\* checkpoint, so neither had saved when the other loaded.
BothFromSameCheckpoint(r, q) ==
    /\ r # q
    /\ run[r].pc = "done" /\ run[r].body = "Processed"
    /\ run[q].pc = "done" /\ run[q].body = "Processed"
    /\ run[r].last_timestamp # None
    /\ run[r].last_timestamp = run[q].last_timestamp

\* C21: overlapping runs reintroduce duplicates.  Two runs that loaded the
\* same checkpoint have each written the checkpoint themselves, the stored
\* one being that of one of them; and when the oldest play of either batch
\* is still held, the two batches share a play; each run has written its
\* batch under the key it was given.
C21_OverlappingRunsDuplicate ==
    \A r \in Runs : \A q \in Runs :
        BothFromSameCheckpoint(r, q)
        => /\ run[r].latest_timestamp > run[r].last_timestamp
           /\ run[q].latest_timestamp > run[q].last_timestamp
           /\ state \in {run[r].latest_timestamp, run[q].latest_timestamp}
           /\ ( /\ Min(PlayedAt(run[r].tracks)) \in history
                /\ Min(PlayedAt(run[q].tracks)) \in history )
              => PlayedAt(run[r].tracks) \cap PlayedAt(run[q].tracks) # {}
           /\ run[r].s3_key \in DOMAIN objects
           /\ run[q].s3_key \in DOMAIN objects

\* C21 witness: two overlapping runs have loaded the same checkpoint; the
\* same play is in the two batch objects they wrote, and each has written
\* the checkpoint.
C21_Witness ==
    \E r \in Runs : \E q \in Runs :
        /\ BothFromSameCheckpoint(r, q)
        /\ run[r].s3_key # run[q].s3_key
        /\ PlayedAt(objects[run[r].s3_key].tracks)
               \cap PlayedAt(objects[run[q].s3_key].tracks) # {}
        /\ run[r].latest_timestamp = state
        /\ run[q].latest_timestamp # None

\* The epoch value of a track is its instant cut to whole milliseconds.
IsTruncation(track) ==
    /\ track.played_at_timestamp * 1000 <= track.played_at
    /\ track.played_at < (track.played_at_timestamp + 1) * 1000

C28_AbsentIsDistinct ==
    \A r \in Runs :
        run[r].call \in {"get_recently_played", "get_recent_plays_since"}
        => /\ run[r].call = "get_recent_plays_since" <=> run[r].response = "Body"
           /\ run[r].call = "get_recently_played" <=> run[r].response = "NoSuchKey"

\* The timestamps of the plays of all batch objects.
StoredTimestamps == UNION {Timestamps(objects[k].tracks) : k \in DOMAIN objects}

\* A step in which a run completes with a non-empty batch: the state write of
\* a run that has persisted its batch succeeds.
CompletesWithBatch ==
    \E r \in Runs :
        /\ run[r].pc = "save_state"
        /\ run'[r].pc = "done"
        /\ run'[r].body = "Processed"
        /\ run'[r].count >= 1

\* C31 as stated: at the end of every successful run of a serialized sequence
\* of runs a present checkpoint equals the maximum epoch timestamp over all
\* plays of all persisted batch objects, and a checkpoint is present if and
\* only if at least one run has completed with a non-empty batch.
C31_CheckpointIsNewestIngested ==
    /\ [](\A r \in Runs :
              (run[r].pc = "done" /\ state # None)
              => /\ StoredTimestamps # {}
                 /\ state = Max(StoredTimestamps))
    /\ [][(state' # None) <=> (state # None \/ CompletesWithBatch)]_vars

\* C31 amended: at the end of every successful run a present checkpoint is
\* the maximum timestamp of the batch of the last run that completed with a
\* non-empty batch; it is at most the maximum over all persisted batch objects
\* and equal to it as long as no run has ended with an error; a checkpoint is
\* present if and only if a run has completed with a non-empty batch.
C31_CheckpointIsNewestCompleted ==
    /\ [](\A r \in Runs :
              run[r].pc = "done"
              => /\ state # None
                    => /\ StoredTimestamps # {}
                       /\ state <= Max(StoredTimestamps)
                       /\ clean => state = Max(StoredTimestamps)
                 /\ run[r].body = "Processed"
                    => /\ run[r].s3_key \in DOMAIN objects
                       /\ state = get_latest_timestamp(objects[run[r].s3_key].tracks))
    /\ [][(state' # None) <=> (state # None \/ CompletesWithBatch)]_vars
    /\ [][(\E r \in Runs : run[r].pc = "returned" /\ run'[r].body = "No new tracks")
              => state' = state]_vars

\* C31 witness: a run has completed with a non-empty batch while the batch
\* store holds a newer play, persisted by a run whose state write failed.
C31_Witness ==
    \E r \in Runs :
        /\ run[r].pc = "done"
        /\ run[r].body = "Processed"
        /\ ~clean
        /\ state # None
        /\ state < Max(StoredTimestamps)

\* C32: the checkpoint save is last-writer-wins.  Whatever runs overlap, the
\* state write of a run stores the newest timestamp of that run's batch
\* without regard to the value stored before, and nothing else changes the
\* stored checkpoint: it is the value of the save that completed last.
C32_LastWriterWins ==
    [][/\ \A r \in Runs :
              (run[r].pc = "save_state" /\ run'[r].pc = "done")
              => state' = get_latest_timestamp(run[r].tracks)
       /\ state' # state
          => \E r \in Runs : run[r].pc = "save_state" /\ run'[r].pc = "done"]_vars

\* C32 witness: two overlapping runs have both saved their checkpoint, and the
\* stored checkpoint, written by the later save, is lower than the value the
\* earlier save had stored.
C32_Witness ==
    \E r, q \in Runs :
        /\ r # q
        /\ run[r].pc = "done" /\ run[r].body = "Processed"
        /\ run[q].pc = "done" /\ run[q].body = "Processed"
        /\ state = run[r].latest_timestamp
        /\ run[q].latest_timestamp > state

\* C33: no backward reach after the first run.  Every history request of a
\* run that loaded a stored checkpoint carries no before-cursor and an
\* after-cursor that is at least the checkpoint the run loaded, and the run
\* is handed no play as old as that checkpoint or older.
C33_NoBackwardReach ==
    \A r \in Runs :
        run[r].response = "Body"
        => /\ \A k \in 1..Len(run[r].requests) :
                  /\ run[r].requests[k].before = None
                  /\ run[r].requests[k].after # None
                  /\ run[r].requests[k].after >= run[r].last_timestamp
           /\ \A i \in {run[r].fetched[k] : k \in 1..Len(run[r].fetched)} :
                  ParseTimestamp(i) > run[r].last_timestamp

\* The ids of the requests of a call, one after the other.
RECURSIVE RequestedIds(_)
RequestedIds(batches) ==
    IF batches = <<>> THEN <<>>
    ELSE batches[1].ids \o RequestedIds(Tail(batches))

\* One entry per artist of an answer that is not null, in the answer's order.
NonNullArtists(results) ==
    LET kept == SelectSeq(results, LAMBDA a : a.kind # "null")
    IN [k \in 1..Len(kept) |-> [artist_id |-> kept[k].id]]

\* The same for the answers of all requests that succeeded, in request order.
RECURSIVE ArtistsOfSucceeded(_)
ArtistsOfSucceeded(batches) ==
    IF batches = <<>> THEN <<>>
    ELSE (IF batches[1].outcome = "failed" THEN <<>>
          ELSE NonNullArtists(batches[1].results))
         \o ArtistsOfSucceeded(Tail(batches))

\* The artists of an answer that come before its first malformed object.
BeforeMalformed(results) ==
    LET bad == {k \in 1..Len(results) : results[k].kind = "malformed"}
    IN IF bad = {} THEN results ELSE SubSeq(results, 1, Min(bad) - 1)

\* The entries due from all requests that succeeded when the conversion of an
\* answer stops at its first malformed object.
RECURSIVE ArtistsConverted(_)
ArtistsConverted(batches) ==
    IF batches = <<>> THEN <<>>
    ELSE (IF batches[1].outcome = "failed" THEN <<>>
          ELSE NonNullArtists(BeforeMalformed(batches[1].results)))
         \o ArtistsConverted(Tail(batches))

\* The ids of the entries of a result list.
ResultIds(all_artists) ==
    [k \in 1..Len(all_artists) |-> [artist_id |-> all_artists[k].artist_id]]

\* The requests of a finished call are consecutive batches of at most
\* BATCH_SIZE ids that cover the whole list, whichever of them failed.
ConsecutiveBatches ==
    LET b == enrichment.batches
    IN /\ RequestedIds(b) = enrichment.artist_ids
       /\ \A k \in 1..Len(b) :
              /\ Len(b[k].ids) \in 1..BATCH_SIZE
              /\ k < Len(b) => Len(b[k].ids) = BATCH_SIZE
              /\ b[k].outcome # "failed"
                 => /\ Len(b[k].results) = Len(b[k].ids)
                    /\ \A j \in 1..Len(b[k].ids) : b[k].results[j].id = b[k].ids[j]

\* C34 as stated: get_artists requests the ids in consecutive batches of at
\* most BATCH_SIZE, a batch whose request fails is skipped without stopping
\* the remaining batches, and the result holds exactly one entry per non-null
\* artist returned by the batches that succeeded, in request order.
C34_ArtistBatching ==
    enrichment.pc = "returned"
    => /\ ConsecutiveBatches
       /\ ResultIds(enrichment.all_artists) = ArtistsOfSucceeded(enrichment.batches)

\* C34 amended: the same batching; the result holds, in request order, one
\* entry per non-null artist of every answered batch up to the first artist
\* object of that batch that cannot be converted: the entries before it are
\* kept, the rest of that batch is skipped, the next batches are requested.
C34_ArtistBatchingUpToMalformed ==
    enrichment.pc = "returned"
    => /\ ConsecutiveBatches
       /\ ResultIds(enrichment.all_artists) = ArtistsConverted(enrichment.batches)
       /\ \A k \in 1..Len(enrichment.all_artists) :
              enrichment.all_artists[k].image_url
                  = IF enrichment.all_artists[k].artist_id = 1 THEN None
                    ELSE enrichment.all_artists[k].artist_id

\* C34 witness: a call has returned after three batches, of which one failed
\* and one was answered with an artist followed by a malformed object.
C34_Witness ==
    /\ enrichment.pc = "returned"
    /\ Len(enrichment.batches) = 3
    /\ \E k \in 1..3 : enrichment.batches[k].outcome = "failed"
    /\ \E k \in 1..3 :
           /\ enrichment.batches[k].outcome = "malformed"
           /\ Len(enrichment.batches[k].results) = 2
           /\ enrichment.batches[k].results[1].kind = "artist"
           /\ enrichment.batches[k].results[2].kind = "malformed"
    /\ enrichment.all_artists # <<>>

====
